---- MODULE Spec2Model ----
(***************************************************************************)
(* The history CLI of atomicAqua (src/atomicAqua/src/fetch_history.py):    *)
(* format_event, fetch_history and main.                                   *)
(*                                                                         *)
(* Python strings are sequences of chunks (a chunk is one character, or    *)
(* one literal piece of an f-string).  Python values that the code reads   *)
(* through duck typing are tagged: [t |-> tag, v |-> value].  A dict is a  *)
(* function whose DOMAIN is its key set, so a missing key is a key that is *)
(* not in the DOMAIN.                                                      *)
(***************************************************************************)
EXTENDS Integers, Sequences, FiniteSets, TLC

VARIABLES
    \* ---- format_event (one call) ----
    event,          \* the argument of format_event
    lines,          \* its local list `lines`
    result,         \* the returned string / the raised exception
    fpc,            \* "idle" | "call" | "returned" | "raised"
    \* ---- one CLI invocation: main -> fetch_history ----
    argv,           \* the parsed command line (argparse namespace)
    store,          \* number of events stored per memory id (remote, read-only)
    pc,             \* position in main / fetch_history
    query,          \* memory_id, region, ... as passed to fetch_history
    requests,       \* the list_events requests issued so far
    api_error,      \* what the API raised on the last request ("none" if nothing)
    page,           \* the response the iterator yielded last
    iterator,       \* the paginator's page iterator (a suspended generator)
    all_events,     \* local all_events
    resume_token,   \* local resume_token
    out,            \* stdout: one entry per print() call
    exc,            \* the exception that left fetch_history ("none" if none)
    run,            \* number of the invocation (1 = first)
    prev            \* the previous invocation's query, events and cursor

fvars == <<event, lines, result, fpc>>
cvars == <<argv, store, pc, query, requests, api_error, page, iterator,
           all_events, resume_token, out, exc, run, prev>>
vars == <<event, lines, result, fpc, argv, store, pc, query, requests, api_error,
          page, iterator, all_events, resume_token, out, exc, run, prev>>

(***************************************************************************)
(* Bounds                                                                  *)
(***************************************************************************)
MaxPayload == 2
MaxFrags == 2
MaxEvents == 4
MaxLimit == 3
MaxRuns == 2

(***************************************************************************)
(* Python values                                                           *)
(***************************************************************************)
PyNone == [t |-> "none", v |-> <<>>]
PyStr(s) == [t |-> "str", v |-> s]
PyList(xs) == [t |-> "list", v |-> xs]
PyDict(d) == [t |-> "dict", v |-> d]

\* d.get(k, default) on a dict
Get(d, k, default) == IF k \in DOMAIN d.v THEN d.v[k] ELSE default

\* str(x), as an f-string field formats a value
Format(x) ==
    CASE x.t = "str" -> x.v
      [] x.t = "none" -> <<"None">>
      [] OTHER -> <<"<repr>">>

\* truthiness of a str | None value (`if next_token:`, `if resume_token:`)
Truthy(x) == x.t = "str" /\ x.v # <<>>

UpperChar(c) ==
    CASE c = "u" -> "U"
      [] c = "s" -> "S"
      [] c = "e" -> "E"
      [] c = "r" -> "R"
      [] c = "a" -> "A"
      [] c = "i" -> "I"
      [] c = "t" -> "T"
      [] c = "n" -> "N"
      [] OTHER -> c

\* str.upper()
Upper(s) == [i \in 1..Len(s) |-> UpperChar(s[i])]

\* sep.join(parts)
RECURSIVE Join(_, _)
Join(parts, sep) ==
    IF parts = <<>> THEN <<>>
    ELSE IF Len(parts) = 1 THEN parts[1]
    ELSE parts[1] \o sep \o Join(Tail(parts), sep)

Ok(s) == [ok |-> TRUE, val |-> s]
Raise(e) == [ok |-> FALSE, val |-> <<e>>]

(***************************************************************************)
(* format_event                                                            *)
(***************************************************************************)
Placeholder == <<" (no conversational content)">>

\* variant: the filter without its `"text" in c` test
FragHasTextNoKeyTest(c) == c.t = "dict"

\* the comprehension's filter: isinstance(c, dict) and "text" in c
FragHasText(c) == c.t = "dict" /\ "text" \in DOMAIN c.v

\* [c.get("text", "") for c in content if isinstance(c, dict) and "text" in c]
TextParts(content) ==
    LET kept == SelectSeq(content.v, FragHasText)
    IN  [i \in 1..Len(kept) |-> Get(kept[i], "text", PyStr(<<>>))]

\* " ".join(text_parts): TypeError when an element is not a str
JoinParts(parts) ==
    IF \E i \in 1..Len(parts) : parts[i].t # "str"
    THEN Raise("TypeError")
    ELSE Ok(Join([i \in 1..Len(parts) |-> parts[i].v], <<" ">>))

\* lines 18-30 for one conversational payload item: the line appended
ConvLine(item) ==
    LET conv == item.v["conversational"]
    IN  IF conv.t # "dict" THEN Raise("AttributeError")
        ELSE
        LET role == Get(conv, "role", PyStr(<<"U", "N", "K", "N", "O", "W", "N">>))
            content == Get(conv, "content", PyStr(<<>>))
        IN  IF role.t # "str" THEN Raise("AttributeError")
            ELSE
            LET text == IF content.t = "list" THEN JoinParts(TextParts(content))
                        ELSE Ok(Format(content))
            IN  IF ~text.ok THEN text
                ELSE Ok(<<"[">> \o Upper(role.v) \o <<"] ">> \o text.val)

\* the loop of lines 16-30 over the payload items from index i on
RECURSIVE CollectLines(_, _, _)
CollectLines(items, i, acc) ==
    IF i > Len(items) THEN Ok(acc)
    ELSE
    LET item == items[i]
    IN  IF item.t # "dict" THEN Raise("TypeError")
        ELSE IF "conversational" \notin DOMAIN item.v
        THEN CollectLines(items, i + 1, acc)
        ELSE
        LET line == ConvLine(item)
        IN  IF ~line.ok THEN line
            ELSE CollectLines(items, i + 1, Append(acc, line.val))

\* `for payload_item in event.get("payload", [])`
EventLines(ev) ==
    LET payload == Get(ev, "payload", PyList(<<>>))
    IN  IF payload.t # "list" THEN Raise("TypeError")
        ELSE CollectLines(payload.v, 1, <<>>)

Header(ev) ==
    <<"Event ">> \o Format(Get(ev, "eventId", PyStr(<<"unknown">>)))
        \o <<" (">> \o Format(Get(ev, "createdAt", PyStr(<<>>))) \o <<"):">>

\* variant: nothing is rendered for an event without lines
NoLinesEmpty(ev) == <<>>

\* line 34
NoLines(ev) == Header(ev) \o Placeholder

\* lines 32-34
Rendered(ev, ls) ==
    IF ls # <<>>
    THEN Header(ev) \o <<"\n">>
            \o Join([i \in 1..Len(ls) |-> <<"  ">> \o ls[i]], <<"\n">>)
    ELSE NoLines(ev)

\* format_event(event)
FormatEvent(ev) ==
    LET ls == EventLines(ev)
    IN  IF ls.ok THEN Ok(Rendered(ev, ls.val)) ELSE ls

(***************************************************************************)
(* The events format_event is applied to                                   *)
(***************************************************************************)
SeqsUpTo(S, n) == UNION {[1..k -> S] : k \in 0..n}

Texts == {<<"a">>, <<"b", "c">>, <<>>}

Frags ==
    {PyDict([text |-> PyStr(s)]) : s \in Texts}
        \cup {PyDict([type |-> PyStr(<<"img">>)]), PyStr(<<"x">>)}

Contents ==
    {PyList(fs) : fs \in SeqsUpTo(Frags, MaxFrags)}
        \cup {PyStr(<<"h", "i">>), PyNone, PyList(<<PyDict([text |-> PyNone])>>)}

Convs ==
    {PyDict([role |-> PyStr(<<"u", "s", "e", "r">>), content |-> c]) : c \in Contents}
        \cup {PyDict([content |-> PyStr(<<"h", "i">>)]),
              PyDict([role |-> PyStr(<<"A", "i">>)]),
              PyDict([role |-> PyNone, content |-> PyStr(<<"h", "i">>)]),
              PyNone}

PayloadItems ==
    {PyDict([conversational |-> c]) : c \in Convs}
        \cup {PyDict([blob |-> PyStr(<<"x">>)]), PyNone}

\* well-formed items that surround the item under study
FillerItems ==
    {PyDict([blob |-> PyStr(<<"x">>)]),
     PyDict([conversational |->
                PyDict([role |-> PyStr(<<"u", "s", "e", "r">>),
                        content |-> PyStr(<<"h", "i">>)])]),
     PyDict([conversational |->
                PyDict([role |-> PyStr(<<"A", "i">>),
                        content |-> PyList(<<PyDict([text |-> PyStr(<<"a">>)]),
                                             PyDict([type |-> PyStr(<<"img">>)]),
                                             PyDict([text |-> PyStr(<<"b", "c">>)])>>)])])}

\* payloads: fillers, with any one item replaced by any item of PayloadItems
Payloads ==
    {PyList(p) : p \in SeqsUpTo(FillerItems, MaxPayload)}
        \cup UNION {{PyList([p EXCEPT ![i] = x]) : i \in 1..Len(p), x \in PayloadItems}
                        : p \in SeqsUpTo(FillerItems, MaxPayload)}
        \cup {PyNone}

Events ==
    {PyDict([eventId |-> PyStr(<<"e", "1">>), createdAt |-> PyStr(<<"T">>), payload |-> p])
        : p \in Payloads}
        \cup {PyDict([payload |-> p]) : p \in Payloads}
        \cup {PyDict([eventId |-> PyStr(<<"e", "1">>)]), PyDict([createdAt |-> PyNone])}

FmtIdle == event = PyNone /\ lines = <<>> /\ result = Ok(<<>>) /\ fpc = "idle"

CliIdle ==
    /\ argv = PyNone /\ store = <<>> /\ pc = "idle" /\ query = PyNone
    /\ requests = <<>> /\ api_error = "none" /\ page = PyNone /\ iterator = PyNone
    /\ all_events = <<>> /\ resume_token = PyNone /\ out = <<>> /\ exc = "none"
    /\ run = 0 /\ prev = PyNone

InitFmt ==
    /\ event \in Events
    /\ lines = <<>>
    /\ result = Ok(<<>>)
    /\ fpc = "call"
    /\ CliIdle

\* the call runs to its return or to the exception that leaves it
CallFormatEvent ==
    /\ fpc = "call"
    /\ LET ls == EventLines(event)
           r == FormatEvent(event)
       IN  /\ lines' = IF ls.ok THEN ls.val ELSE <<>>
           /\ result' = r
           /\ fpc' = IF r.ok THEN "returned" ELSE "raised"
    /\ UNCHANGED <<event>>
    /\ UNCHANGED cvars

NextFmt == CallFormatEvent

SpecFmt == InitFmt /\ [][NextFmt]_vars

(***************************************************************************)
(* The memory service behind list_events (read-only for this tool)         *)
(***************************************************************************)
ConfiguredMemory == "aqua_memory_v1-ou5CPqEFsu"
ConfiguredRegion == "eu-central-1"
OtherMemory == "other-memory"
OtherRegion == "us-east-1"

\* the i-th event stored under memory id mem
StoredEvent(mem, i) ==
    PyDict([eventId |-> PyStr(<<mem, "#", ToString(i)>>),
            createdAt |-> PyStr(<<"T", ToString(i)>>),
            payload |->
                PyList(<<PyDict([conversational |->
                    IF i % 2 = 1
                    THEN PyDict([role |-> PyStr(<<"u", "s", "e", "r">>),
                                 content |-> PyStr(<<"h", "i">>)])
                    ELSE PyDict([role |-> PyStr(<<"a", "s", "s", "i", "s", "t", "a", "n", "t">>),
                                 content |-> PyList(<<PyDict([text |-> PyStr(<<"hello">>)]),
                                                      PyDict([text |-> PyStr(<<"there">>)])>>)])])>>)])

Conversation(mem, n) == [i \in 1..n |-> StoredEvent(mem, i)]

\* the service's opaque nextToken for "k events already listed"
Tok(k) == PyStr(<<"tok", ToString(k)>>)

IsServiceToken(t) == t.t = "str" /\ \E k \in 0..(MaxEvents + 1) : t = Tok(k)

TokOffset(t) == CHOOSE k \in 0..(MaxEvents + 1) : t = Tok(k)

Min(a, b) == IF a <= b THEN a ELSE b

\* one list_events response for a request that the service accepts
ListEvents(req, stored) ==
    LET n == stored[req.memoryId]
        off == IF req.nextToken = PyNone THEN 0 ELSE TokOffset(req.nextToken)
        last == Min(off + req.maxResults, n)
    IN  [events |-> SubSeq(Conversation(req.memoryId, n), off + 1, last),
         nextToken |-> IF last < n THEN Tok(last) ELSE PyNone]

ApiErrors == {"AuthenticationError", "NotFoundError", "TransportError"}

(***************************************************************************)
(* The paginator (botocore's PageIterator, as fetch_history uses it).      *)
(* The iterator is a generator: it issues one request per next() and is    *)
(* suspended at its yield while the loop body runs.  Its resume_token      *)
(* attribute starts as None and is assigned only when a MaxItems limit     *)
(* truncates the listing; fetch_history's PaginationConfig has no MaxItems.*)
(***************************************************************************)
\* lines 60-62
PaginationConfig(limit, next_token) ==
    IF Truthy(next_token)
    THEN [PageSize |-> limit, StartingToken |-> next_token]
    ELSE [PageSize |-> limit]

\* the token a resume_token would carry is the service token, wrapped
EncodeToken(t) == PyStr(<<"b64:">> \o t.v)

\* StartingToken -> the service token to send: unwrap, or pass a raw token on
DecodeStartingToken(s) ==
    IF s.v # <<>> /\ s.v[1] = "b64:" THEN PyStr(Tail(s.v)) ELSE s

\* lines 64-70: paginator.paginate(...)
Paginate(q) ==
    [region |-> q.region,
     memoryId |-> q.memory_id,
     actorId |-> q.user_id,
     sessionId |-> q.session_id,
     includePayloads |-> TRUE,
     config |-> PaginationConfig(q.limit, q.next_token),
     started |-> FALSE,
     resume_token |-> PyNone]

\* the request the iterator sends on its next step
NextRequest(it, last) ==
    [region |-> it.region,
     memoryId |-> it.memoryId,
     actorId |-> it.actorId,
     sessionId |-> it.sessionId,
     includePayloads |-> it.includePayloads,
     maxResults |-> it.config.PageSize,
     nextToken |->
        IF it.started THEN last.nextToken
        ELSE IF "StartingToken" \in DOMAIN it.config
             THEN DecodeStartingToken(it.config.StartingToken)
             ELSE PyNone]

(***************************************************************************)
(* The rendering of fetch_history, lines 82-99                             *)
(***************************************************************************)
HeaderLine(user_id, session_id) ==
    <<"=== Conversation History (user: ">> \o user_id \o <<", session: ">>
        \o session_id \o <<") ===", "\n">>

SummaryLine(n) == <<"--- Showing ", ToString(n), " event(s) ---">>

MoreLine == <<"\n", "More events available. Use --next-token to fetch next page:">>

TokenLine(token) == <<"--next-token \"">> \o Format(token) \o <<"\"">>

NoMoreLine == <<"\n", "No more events.">>

NoEventsLine == <<"No events found.">>

\* variant: `if resume_token is not None:`
CursorNoticeIsNotNone(token) ==
    IF token # PyNone THEN <<MoreLine, TokenLine(token)>> ELSE <<NoMoreLine>>

\* lines 95-99
CursorNotice(token) ==
    IF Truthy(token) THEN <<MoreLine, TokenLine(token)>> ELSE <<NoMoreLine>>

\* lines 88-91: prints so far, and the exception format_event raised (if any)
RECURSIVE EventBlocks(_, _, _)
EventBlocks(events, i, acc) ==
    IF i > Len(events) THEN [prints |-> acc, exc |-> "none"]
    ELSE LET f == FormatEvent(events[i])
         IN  IF ~f.ok THEN [prints |-> acc, exc |-> f.val[1]]
             ELSE EventBlocks(events, i + 1, acc \o <<f.val, <<>>>>)

\* lines 86-99
NonEmptyOutput(user_id, session_id, events, token) ==
    LET blocks == EventBlocks(events, 1, <<HeaderLine(user_id, session_id)>>)
    IN  IF blocks.exc # "none" THEN blocks
        ELSE [prints |-> blocks.prints \o <<SummaryLine(Len(events))>> \o CursorNotice(token),
              exc |-> "none"]

\* variant: line 84's return left out
EmptyOutputNoReturn(user_id, session_id, token) ==
    [prints |-> <<NoEventsLine, HeaderLine(user_id, session_id), SummaryLine(0)>>
                    \o CursorNotice(token),
     exc |-> "none"]

\* lines 82-84
EmptyOutput(user_id, session_id, token) == [prints |-> <<NoEventsLine>>, exc |-> "none"]

\* lines 82-99
RenderPage(user_id, session_id, events, token) ==
    IF events = <<>> THEN EmptyOutput(user_id, session_id, token)
    ELSE NonEmptyOutput(user_id, session_id, events, token)

(***************************************************************************)
(* main and fetch_history                                                  *)
(***************************************************************************)
NextTokens ==
    {PyNone, PyStr(<<>>), PyStr(<<"bad">>)} \cup {Tok(k) : k \in 1..MaxEvents}

Argvs ==
    [user_id : {<<"u1">>},
     session_id : {<<"s1">>},
     limit : 1..MaxLimit,
     next_token : NextTokens,
     memory_id : {PyNone, PyStr(<<OtherMemory>>)},
     region : {PyNone, PyStr(<<OtherRegion>>)}]

Stores == {[m \in {ConfiguredMemory, OtherMemory} |->
                IF m = ConfiguredMemory THEN n ELSE 1] : n \in 0..MaxEvents}

Init ==
    /\ FmtIdle
    /\ argv \in Argvs
    /\ store \in Stores
    /\ pc = "main"
    /\ query = PyNone
    /\ requests = <<>>
    /\ api_error = "none"
    /\ page = PyNone
    /\ iterator = PyNone
    /\ all_events = <<>>
    /\ resume_token = PyNone
    /\ out = <<>>
    /\ exc = "none"
    /\ run = 1
    /\ prev = PyNone

\* line 141
MainMemoryId(args) == ConfiguredMemory

\* line 142
MainRegion(args) == ConfiguredRegion

\* lines 139-151: main, up to the call of fetch_history
Main ==
    /\ pc = "main"
    /\ query' = [memory_id |-> MainMemoryId(argv),
                 region |-> MainRegion(argv),
                 user_id |-> argv.user_id,
                 session_id |-> argv.session_id,
                 limit |-> argv.limit,
                 next_token |-> argv.next_token]
    /\ pc' = "fetch"
    /\ UNCHANGED <<argv, store, requests, api_error, page, iterator, all_events,
                   resume_token, out, exc, run, prev>>
    /\ UNCHANGED fvars

\* lines 55-74: client, paginator, page iterator, the two locals
FetchStart ==
    /\ pc = "fetch"
    /\ iterator' = Paginate(query)
    /\ all_events' = <<>>
    /\ resume_token' = PyNone
    /\ pc' = "iter"
    /\ UNCHANGED <<argv, store, query, requests, api_error, page, out, exc, run, prev>>
    /\ UNCHANGED fvars

\* variant: the error is caught and the (empty) result rendered
SwallowApiError(e) == [pc |-> "render", exc |-> "none"]

\* an exception raised inside the for statement of line 76: no handler
OnApiError(e) == [pc |-> "crashed", exc |-> e]

\* line 76: `for page in page_iterator` asks the iterator for its next page
IterNext ==
    /\ pc = "iter"
    /\ IF iterator.started /\ page.nextToken = PyNone
       THEN \* the listing is exhausted: the loop ends
            /\ pc' = "render"
            /\ UNCHANGED <<requests, api_error, page, iterator, exc>>
       ELSE LET req == NextRequest(iterator, page)
            IN  /\ requests' = Append(requests, req)
                /\ iterator' = [iterator EXCEPT !.started = TRUE]
                /\ \E e \in ApiErrors \cup {"none"} :
                    LET err == IF e # "none" THEN e
                               ELSE IF req.nextToken # PyNone /\ ~IsServiceToken(req.nextToken)
                                    THEN "InvalidCursorError"
                                    ELSE "none"
                    IN  /\ api_error' = err
                        /\ IF err = "none"
                           THEN /\ page' = ListEvents(req, store)
                                /\ pc' = "body"
                                /\ exc' = exc
                           ELSE /\ page' = page
                                /\ pc' = OnApiError(err).pc
                                /\ exc' = OnApiError(err).exc
    /\ UNCHANGED <<argv, store, query, all_events, resume_token, out, run, prev>>
    /\ UNCHANGED fvars

\* variant: the loop without its break
LoopNeverBreaks == FALSE

\* line 80
LoopBreaks == TRUE

\* lines 77-80: the loop body
LoopBody ==
    /\ pc = "body"
    /\ all_events' = all_events \o page.events
    /\ resume_token' = iterator.resume_token
    /\ pc' = IF LoopBreaks THEN "render" ELSE "iter"
    /\ UNCHANGED <<argv, store, query, requests, api_error, page, iterator, out, exc,
                   run, prev>>
    /\ UNCHANGED fvars

\* lines 82-99
Render ==
    /\ pc = "render"
    /\ LET r == RenderPage(query.user_id, query.session_id, all_events, resume_token)
       IN  /\ out' = out \o r.prints
           /\ exc' = r.exc
           /\ pc' = IF r.exc = "none" THEN "done" ELSE "crashed"
    /\ UNCHANGED <<argv, store, query, requests, api_error, page, iterator, all_events,
                   resume_token, run, prev>>
    /\ UNCHANGED fvars

\* the next invocation: the user passes the cursor the last one printed
\* (lines 96-97), and leaves every other flag as it was
Rerun ==
    /\ pc = "done"
    /\ run < MaxRuns
    /\ prev' = [query |-> query, events |-> all_events, cursor |-> resume_token,
                more |-> page.nextToken # PyNone]
    /\ argv' = [argv EXCEPT !.next_token = IF Truthy(resume_token) THEN resume_token
                                           ELSE PyNone]
    /\ run' = run + 1
    /\ pc' = "main"
    /\ query' = PyNone
    /\ requests' = <<>>
    /\ api_error' = "none"
    /\ page' = PyNone
    /\ iterator' = PyNone
    /\ all_events' = <<>>
    /\ resume_token' = PyNone
    /\ out' = <<>>
    /\ exc' = "none"
    /\ UNCHANGED store
    /\ UNCHANGED fvars

Next == Main \/ FetchStart \/ IterNext \/ LoopBody \/ Render \/ Rerun

Spec == Init /\ [][Next]_vars

(***************************************************************************)
(* The rendering alone, applied to any page result                         *)
(***************************************************************************)
Pages ==
    {SubSeq(Conversation(ConfiguredMemory, MaxEvents), a + 1, b) :
        a \in 0..MaxEvents, b \in 0..MaxEvents}

Cursors == {PyNone, PyStr(<<>>)} \cup {EncodeToken(Tok(k)) : k \in 1..MaxEvents}

InitRender ==
    /\ FmtIdle
    /\ argv = PyNone
    /\ store \in {s \in Stores : s[ConfiguredMemory] = MaxEvents}
    /\ pc = "render"
    /\ query \in [memory_id : {ConfiguredMemory},
                  region : {ConfiguredRegion},
                  user_id : {<<"u1">>, <<"u2">>},
                  session_id : {<<"s1">>},
                  limit : {MaxLimit},
                  next_token : {PyNone}]
    /\ requests = <<>>
    /\ api_error = "none"
    /\ page = PyNone
    /\ iterator = PyNone
    /\ all_events \in Pages
    /\ resume_token \in Cursors
    /\ out = <<>>
    /\ exc = "none"
    /\ run = 1
    /\ prev = PyNone

NextRender == Render

SpecRender == InitRender /\ [][NextRender]_vars

(***************************************************************************)
(* Claims about format_event (checked under SpecFmt)                       *)
(***************************************************************************)
IsConvItem(item) == item.t = "dict" /\ "conversational" \in DOMAIN item.v

\* the conversational items of the event under format_event, in payload order
ConvItemsOf(ev) ==
    IF "payload" \in DOMAIN ev.v /\ ev.v["payload"].t = "list"
    THEN SelectSeq(ev.v["payload"].v, IsConvItem)
    ELSE <<>>

RoleOf(item) ==
    LET conv == item.v["conversational"]
    IN  IF "role" \in DOMAIN conv.v THEN conv.v["role"].v
        ELSE <<"U", "N", "K", "N", "O", "W", "N">>

FragWithText(c) == c.t = "dict" /\ "text" \in DOMAIN c.v

\* the 'text' values of the fragments that carry one, in their order
TextsOf(frags) ==
    LET kept == SelectSeq(frags, FragWithText)
    IN  [i \in 1..Len(kept) |-> kept[i].v["text"].v]

RECURSIVE SumLen(_, _)
SumLen(T, n) == IF n = 0 THEN 0 ELSE Len(T[n]) + SumLen(T, n - 1)

\* txt is T[1] ' ' T[2] ' ' ... T[n], stated position by position
JoinedBySpace(txt, T) ==
    /\ Len(txt) = IF T = <<>> THEN 0 ELSE SumLen(T, Len(T)) + Len(T) - 1
    /\ \A i \in 1..Len(T) :
        LET off == SumLen(T, i - 1) + (i - 1)
        IN  /\ SubSeq(txt, off + 1, off + Len(T[i])) = T[i]
            /\ i < Len(T) => txt[off + Len(T[i]) + 1] = " "

\* C6: format_event never raises, whatever the event: every call returns a
\* string (stated as: no call ends in an exception).
C6_NeverRaises == fpc # "raised"

\* C8: for every conversational item whose content is a list of fragments,
\* the text after '[ROLE] ' is the 'text' values of the fragments that have
\* one, in order, joined by exactly one space; a fragment without 'text'
\* contributes neither an empty string nor a separator.
C8_FragmentsJoined ==
    fpc = "returned" =>
        LET items == ConvItemsOf(event)
        IN  \A k \in 1..Len(items) :
                LET conv == items[k].v["conversational"]
                    n == Len(RoleOf(items[k])) + 2
                IN  ("content" \in DOMAIN conv.v /\ conv.v["content"].t = "list") =>
                        /\ k <= Len(lines)
                        /\ SubSeq(lines[k], 1, n)
                                = <<"[">> \o Upper(RoleOf(items[k])) \o <<"] ">>
                        /\ JoinedBySpace(SubSeq(lines[k], n + 1, Len(lines[k])),
                                         TextsOf(conv.v["content"].v))

\* a list content with two texts around a fragment without text: "[AI] a bc"
C8_Witness ==
    /\ fpc = "returned"
    /\ \E k \in 1..Len(lines) :
        lines[k] = <<"[", "A", "I", "] ", "a", " ", "b", "c">>

RECURSIVE SplitOn(_, _)
\* the pieces of s between the occurrences of the chunk sep
SplitOn(s, sep) ==
    IF \A i \in 1..Len(s) : s[i] # sep THEN <<s>>
    ELSE LET i == CHOOSE j \in 1..Len(s) :
                    s[j] = sep /\ \A h \in 1..(j - 1) : s[h] # sep
         IN  <<SubSeq(s, 1, i - 1)>> \o SplitOn(SubSeq(s, i + 1, Len(s)), sep)

IdOf(ev) == IF "eventId" \in DOMAIN ev.v THEN Format(ev.v["eventId"]) ELSE <<"unknown">>
StampOf(ev) == IF "createdAt" \in DOMAIN ev.v THEN Format(ev.v["createdAt"]) ELSE <<>>
PrefixOf(ev) == <<"Event ">> \o IdOf(ev) \o <<" (">> \o StampOf(ev) \o <<"):">>

\* C9: an event without conversational item (empty or absent payload
\* included) renders as the id/timestamp prefix followed by the exact
\* placeholder, never as the empty string; an event with conversational
\* items renders no placeholder and one '[ROLE] content' line per
\* conversational item, in payload order.
C9_PlaceholderOrLines ==
    fpc = "returned" =>
        LET items == ConvItemsOf(event)
            pieces == SplitOn(result.val, "\n")
        IN  /\ result.val # <<>>
            /\ items = <<>> =>
                    result.val = PrefixOf(event) \o <<" (no conversational content)">>
            /\ items # <<>> =>
                    /\ \A i \in 1..Len(result.val) :
                            result.val[i] # " (no conversational content)"
                    /\ Len(pieces) = Len(items) + 1
                    /\ pieces[1] = PrefixOf(event)
                    /\ \A k \in 1..Len(items) :
                        LET n == Len(RoleOf(items[k])) + 3
                        IN  SubSeq(pieces[k + 1], 1, n)
                                = <<"  ", "[">> \o Upper(RoleOf(items[k])) \o <<"] ">>

\* a non-empty payload without conversational item gives the placeholder
C9_Witness ==
    /\ fpc = "returned"
    /\ "payload" \in DOMAIN event.v
    /\ event.v["payload"].t = "list"
    /\ event.v["payload"].v # <<>>
    /\ ConvItemsOf(event) = <<>>
    /\ result.val = <<"Event ", "e", "1", " (", "T", "):", " (no conversational content)">>

(***************************************************************************)
(* Claims about fetch_history and main (checked under Spec)                *)
(***************************************************************************)
\* where the listing of an invocation starts: after the events its cursor covers
StartOffset(q) ==
    IF q.next_token.t = "str" /\ q.next_token.v # <<>>
    THEN TokOffset(DecodeStartingToken(q.next_token))
    ELSE 0

\* the first page the service holds for the query
FirstPageOf(q, stored) ==
    LET n == stored[q.memory_id]
    IN  SubSeq(Conversation(q.memory_id, n), StartOffset(q) + 1,
               Min(StartOffset(q) + q.limit, n))

\* C1: an invocation consumes at most one page: no second request is ever
\* issued, the events collected are exactly those of the first page of the
\* query, and exactly those are rendered, one block per event.
C1_OnePageOnly ==
    /\ Len(requests) <= 1
    /\ pc \in {"render", "done"} => all_events = FirstPageOf(query, store)
    /\ (pc = "done" /\ all_events # <<>>) =>
            /\ Len(out) = 2 * Len(FirstPageOf(query, store)) + 3
            /\ \A i \in 1..Len(FirstPageOf(query, store)) :
                    /\ out[2 * i] = FormatEvent(FirstPageOf(query, store)[i]).val
                    /\ out[2 * i + 1] = <<>>

\* a conversation of several pages, of which only the first was fetched
C1_Witness ==
    /\ pc = "done"
    /\ page.nextToken # PyNone
    /\ Len(requests) = 1
    /\ Len(all_events) = query.limit
    /\ store[query.memory_id] >= 2 * query.limit

\* C2: after the single page request the captured cursor is non-empty when
\* the API signals that more pages follow the fetched one, and empty when the
\* fetched page is the last.
C2_CursorIffMorePages ==
    pc \in {"render", "done"} =>
        ((resume_token.t = "str" /\ resume_token.v # <<>>) <=> page.nextToken # PyNone)

NoDuplicates(s) == \A i, j \in 1..Len(s) : i # j => s[i] # s[j]

C7_ErrorsPropagate ==
    api_error # "none" =>
        /\ pc = "crashed"
        /\ exc = api_error
        /\ out = <<>>
        /\ Len(requests) = 1

\* a malformed cursor: the API's error ends the invocation
C7_Witness ==
    /\ pc = "crashed"
    /\ exc = "InvalidCursorError"
    /\ argv.next_token = PyStr(<<"bad">>)
    /\ out = <<>>

\* C10: --memory-id and --region override the query: a supplied flag is the
\* memory id / region of the page request, the configured value is used only
\* when the flag is omitted.
C10_FlagsOverride ==
    pc \notin {"main"} =>
        /\ query.memory_id =
                IF argv.memory_id = PyNone THEN ConfiguredMemory ELSE argv.memory_id.v[1]
        /\ query.region =
                IF argv.region = PyNone THEN ConfiguredRegion ELSE argv.region.v[1]
        /\ \A i \in 1..Len(requests) :
                /\ requests[i].memoryId = query.memory_id
                /\ requests[i].region = query.region

(***************************************************************************)
(* Claims about the rendering (checked under SpecRender)                   *)
(***************************************************************************)
CursorPresent == resume_token.t = "str" /\ resume_token.v # <<>>

HasInstructions ==
    \E i \in 1..(Len(out) - 1) :
        /\ out[i] = <<"\n", "More events available. Use --next-token to fetch next page:">>
        /\ out[i + 1] = <<"--next-token \"">> \o resume_token.v \o <<"\"">>

HasNoMoreNotice == \E i \in 1..Len(out) : out[i] = <<"\n", "No more events.">>

\* C4 (as claimed): for every page result the output has the resumption
\* instructions with the literal cursor iff a cursor is present, has the
\* 'No more events.' notice whenever no cursor is present, and never both.
C4_EveryPage ==
    pc = "done" =>
        /\ HasInstructions <=> CursorPresent
        /\ ~CursorPresent => HasNoMoreNotice
        /\ ~(HasInstructions /\ HasNoMoreNotice)

\* C4 (amended): the same, for every page result that holds at least one event.
C4_NonEmptyPage ==
    (pc = "done" /\ all_events # <<>>) =>
        /\ HasInstructions <=> CursorPresent
        /\ ~CursorPresent => HasNoMoreNotice
        /\ ~(HasInstructions /\ HasNoMoreNotice)

\* a page with events and a cursor: instructions, and no notice
C4_Witness ==
    /\ pc = "done"
    /\ all_events # <<>>
    /\ CursorPresent
    /\ HasInstructions
    /\ ~HasNoMoreNotice

\* C5: for a page without events the whole output is the one line
\* 'No events found.': no header, no summary, no instructions, no notice.
C5_EmptyPage ==
    (pc = "done" /\ all_events = <<>>) => out = <<<<"No events found.">>>>

\* an empty page that comes with a cursor: still the one line only
C5_Witness ==
    /\ pc = "done"
    /\ all_events = <<>>
    /\ CursorPresent
    /\ out = <<<<"No events found.">>>>

====
